---- MODULE Spec2Model ----
(***************************************************************************)
(* The manifest-driven generation loop of claude-source-generator          *)
(* (src/src/index.ts): SourceGenerator.init, generateInitialManifest,      *)
(* saveManifest, processCommands, preload and generate.                    *)
(*                                                                         *)
(* A batch of commands (the array parsed from one generator response) is   *)
(* held as the number of its elements the for-loop has not read yet and    *)
(* the distance from the loop position to its first Finish command (0 when *)
(* none is ahead); the element at a position is drawn when the for-loop of *)
(* processCommands reads it.  Elements after the first Finish are never    *)
(* read by the code.                                                       *)
(*                                                                         *)
(* One action is one await-delimited step of the code: init(), one request *)
(* to the generator, one response, one iteration of the command loop.      *)
(*                                                                         *)
(* The batch-replay client (src/src/batchDownload.ts: main and             *)
(* processCommandFile) is a program of its own with the specification      *)
(* ReplaySpec; it shares the project files with the generator and keeps    *)
(* its own state in the variable replay.                                   *)
(*                                                                         *)
(* The single-shot driver (src/unnamed/part_001) is the generator with an  *)
(* earlier generate() that exits on the first failure; its specification   *)
(* is SingleShotSpec, over the generator's variables.                      *)
(***************************************************************************)
EXTENDS Integers, Sequences, FiniteSets, TLC

\* ------------------------------------------------------------------ bounds
MaxCycles == 3
MaxBatch == 2
MaxManifest == 2
MaxPlan == 1
MaxFiles == 2

\* --------------------------------------------------------------- alphabets
\* A path is its sequence of segments: src/a and b.
PathA == <<"src", "a">>
PathB == <<"b">>
Paths == {PathA, PathB}
Descriptions == {"d"}
Statuses == {"pending", "generated", "deleted"}
Texts == {"c1"}
NoFile == "<no file>"
RootDir == <<".">>
NL == "\n"

\* The content field of an update command as JSON.parse delivers it: a
\* string, a number, or an array of strings (text: the strings joined).
StringContents == [type : {"string"}, text : Texts]
NumberContent == [type |-> "number", text |-> ""]
ArrayContent == [type |-> "array", text |-> "c1"]
Contents == StringContents \cup {NumberContent, ArrayContent}
NoContent == [type |-> "none", text |-> ""]

ManifestFile == [path : Paths, description : Descriptions, status : Statuses]

RECURSIVE SeqsUpTo(_, _)
SeqsUpTo(S, n) ==
    IF n = 0 THEN {<<>>}
    ELSE LET shorter == SeqsUpTo(S, n - 1)
         IN  shorter \cup {Append(s, x) : s \in {t \in shorter : Len(t) = n - 1}, x \in S}

VARIABLES
    pc,           \* "start" | "boot" | "loop" | "await" | "apply" | "exited"
    exitCode,     \* <<>> while the process runs, <<0>> or <<1>> once it ended
    specFile,     \* the specification document: "missing" | "malformed" | "array" | "nonarray"
    specContent,  \* this.specContent: "undefined" | "array" | "nonarray"
    disk,         \* the manifest document ./autosrc.json
    manifest,     \* this.manifest
    fs,           \* project files: path -> text or NoFile
    dirs,         \* directories that exist (besides ".")
    errors,       \* generate's local `errors`
    finished,     \* generate's local `finished`
    request,      \* the request the generator is working on
    calls,        \* generator invocations made by generate
    unread,       \* elements of the batch the for-loop has not read yet
    untilFinish,  \* unread elements up to and including the first Finish, 0 if none
    last,         \* the command read last and how it ended
    schemaOk,     \* every element read from the batch so far has the Command type
    log,          \* how each cycle of generate ended
    replay        \* the batch-replay client (src/src/batchDownload.ts)

vars == <<pc, exitCode, specFile, specContent, disk, manifest, fs, dirs, errors,
          finished, request, calls, unread, untilFinish, last, schemaOk, log, replay>>

\* ---------------------------------------------------------- pure helpers
\* JSON.stringify(this.manifest, null, 2): the document lists, per entry, the
\* values of path, description and status.
Stringify(m) ==
    [i \in 1..Len(m.files) |->
        <<m.files[i].path, m.files[i].description, m.files[i].status>>]

\* JSON.parse of a manifest document.
ParseManifest(doc) ==
    [files |-> [i \in 1..Len(doc) |->
        [path |-> doc[i][1], description |-> doc[i][2], status |-> doc[i][3]]]]

AbsentDoc == [state |-> "absent", doc |-> <<>>]
MalformedDoc == [state |-> "malformed", doc |-> <<>>]

\* saveManifest: fs.writeFile(this.manifestPath, JSON.stringify(this.manifest)).
saveManifest(m) == [state |-> "json", doc |-> Stringify(m)]

\* Variant: the last entry with the path is taken instead of the first.
FindLastIndex(files, p) ==
    IF \E i \in 1..Len(files) : files[i].path = p
    THEN CHOOSE i \in 1..Len(files) :
            /\ files[i].path = p
            /\ \A j \in (i + 1)..Len(files) : files[j].path # p
    ELSE 0

\* this.manifest.files.find(f => f.path === filePath): the index of the first
\* entry with the path, 0 when there is none.
FindIndex(files, p) ==
    IF \E i \in 1..Len(files) : files[i].path = p
    THEN CHOOSE i \in 1..Len(files) :
            /\ files[i].path = p
            /\ \A j \in 1..(i - 1) : files[j].path # p
    ELSE 0

\* Variant: an Add whose path is already in the manifest is dropped.
PushEntryUnlessPresent(m, p, d) ==
    IF \E i \in 1..Len(m.files) : m.files[i].path = p
    THEN m
    ELSE [files |-> Append(m.files, [path |-> p, description |-> d, status |-> "pending"])]

\* this.manifest.files.push({ path, description, status: 'pending' }).
PushEntry(m, p, d) ==
    [files |-> Append(m.files, [path |-> p, description |-> d, status |-> "pending"])]

\* Variant: every entry with the path gets the status.
SetStatusAll(m, p, st) ==
    [files |-> [i \in 1..Len(m.files) |->
        IF m.files[i].path = p THEN [m.files[i] EXCEPT !.status = st] ELSE m.files[i]]]

\* Variant: a path with no entry gets one.
SetStatusOrAppend(m, p, st) ==
    IF \E i \in 1..Len(m.files) : m.files[i].path = p
    THEN LET i == CHOOSE k \in 1..Len(m.files) :
                    m.files[k].path = p /\ \A j \in 1..(k - 1) : m.files[j].path # p
         IN  [files |-> [m.files EXCEPT ![i].status = st]]
    ELSE [files |-> Append(m.files, [path |-> p, description |-> "d", status |-> st])]

\* const file = files.find(...); if (file) file.status = st.
SetStatus(m, p, st) ==
    LET i == FindIndex(m.files, p)
    IN  IF i = 0 THEN m ELSE [files |-> [m.files EXCEPT ![i].status = st]]

\* path.dirname(filePath).
Dirname(p) == IF Len(p) = 1 THEN RootDir ELSE SubSeq(p, 1, Len(p) - 1)

\* fs.mkdir(dir, { recursive: true }).
Mkdir(ds, d) == IF d = RootDir THEN ds ELSE ds \cup {d}

\* fs.writeFile(filePath, content) for content it accepts.
WriteFile(f, p, text) == [f EXCEPT ![p] = text]

\* fs.unlink(filePath) of an existing file.
Unlink(f, p) == [f EXCEPT ![p] = NoFile]

\* fs/promises writeFile accepts a string and an iterable of strings (an
\* array); any other JSON value is rejected with a TypeError before the file
\* is opened.
WriteAccepts(content) == content.type \in {"string", "array"}

\* The text of a thrown error, `${error}`, as a sequence of tokens, one text
\* per class of error: a rejected generator call, a SyntaxError of JSON.parse,
\* the ENOENT of fs.unlink, and a TypeError (of fs.writeFile for content it
\* does not accept, of the for-loop for a value that is not iterable, of the
\* `in` operator for an element that is no object).
ErrorText(kind) ==
    CASE kind = "callfail"  -> <<"Error: generator call failed", NL, "retry later">>
      [] kind = "parsefail" -> <<"SyntaxError: Unexpected token">>
      [] kind = "enoent"    -> <<"Error: ENOENT: no such file or directory">>
      [] kind = "typeerror" -> <<"TypeError: value of the wrong type">>

\* String.prototype.split('\n').
RECURSIVE SplitAcc(_, _, _)
SplitAcc(s, cur, acc) ==
    IF s = <<>> THEN Append(acc, cur)
    ELSE IF Head(s) = NL THEN SplitAcc(Tail(s), <<>>, Append(acc, cur))
    ELSE SplitAcc(Tail(s), Append(cur, Head(s)), acc)

Split(s) == SplitAcc(s, <<>>, <<>>)

\* errors.map(error => ({ role: 'user', content: `Be sure to fix this error: ${error}` })).
Fixes(errs) ==
    [i \in 1..Len(errs) |->
        [role |-> "user", content |-> <<"Be sure to fix this error: ">> \o errs[i]]]

\* Variant: the request is built without the fixes.
BuildRequestNoFixes(m, errs) == [to |-> "generate", manifest |-> Stringify(m), fixes |-> <<>>]

\* The messages of one request of generate: the current manifest and the fixes.
BuildRequest(m, errs) == [to |-> "generate", manifest |-> Stringify(m), fixes |-> Fixes(errs)]

\* The one request of generateInitialManifest: the specification and the plan
\* instructions, no manifest and no fixes.
BootRequest == [to |-> "bootstrap", manifest |-> <<>>, fixes |-> <<>>]

NoRequest == [to |-> "none", manifest |-> <<>>, fixes |-> <<>>]

NoCommand == [kind |-> "none", path |-> RootDir, description |-> "", content |-> NoContent,
              result |-> "none"]

Command(kind, p, d, c, result) ==
    [kind |-> kind, path |-> p, description |-> d, content |-> c, result |-> result]

FailKinds == {"callfail", "parsefail", "enoent", "typeerror"}
PreFailKinds == {"callfail", "parsefail"}

\* The batch-replay client before main() runs.
ReplayNotStarted ==
    [pc |-> "off", argc |-> 0, results |-> <<>>, unread |-> 0, cmd |-> "none", said |-> "",
     exit |-> <<>>]

\* ------------------------------------------------------------------- Init
\* The state after `new SourceGenerator(spec)`: the fields as constructed, the
\* documents and project files as the user's directory holds them.
Dirs == {Dirname(p) : p \in Paths} \ {RootDir}

Init ==
    /\ pc = "start"
    /\ exitCode = <<>>
    /\ specFile \in {"missing", "malformed", "array", "nonarray"}
    /\ specContent = "undefined"
    /\ disk \in {AbsentDoc, MalformedDoc}
                \cup {saveManifest([files |-> fl]) : fl \in SeqsUpTo(ManifestFile, MaxPlan)}
    /\ manifest = [files |-> <<>>]
    /\ fs \in [Paths -> Texts \cup {NoFile}]
    /\ dirs \in SUBSET Dirs
    /\ \A p \in Paths : fs[p] # NoFile => Dirname(p) \in dirs \cup {RootDir}
    /\ errors = <<>>
    /\ finished = FALSE
    /\ request = NoRequest
    /\ calls = 0
    /\ unread = 0
    /\ untilFinish = 0
    /\ last = NoCommand
    /\ schemaOk = TRUE
    /\ log = <<>>
    /\ replay = ReplayNotStarted

\* ----------------------------------------------------------------- init()
SpecReadable == specFile \in {"array", "nonarray"}

\* init(): readFile or JSON.parse of the specification throws; the outer catch
\* exits with 1.
InitSpecFails ==
    /\ pc = "start"
    /\ ~SpecReadable
    /\ pc' = "exited"
    /\ exitCode' = <<1>>
    /\ UNCHANGED <<specFile, replay, specContent, disk, manifest, fs, dirs, errors, finished,
                   request, calls, unread, untilFinish, last, schemaOk, log>>

\* init(): the manifest document is read and parsed.
InitLoad ==
    /\ pc = "start"
    /\ SpecReadable
    /\ disk.state = "json"
    /\ specContent' = specFile
    /\ manifest' = ParseManifest(disk.doc)
    /\ pc' = "loop"
    /\ UNCHANGED <<exitCode, specFile, replay, disk, fs, dirs, errors, finished, request, calls,
                   unread, untilFinish, last, schemaOk, log>>

\* The inner catch of init(): reading or parsing the manifest document threw.
NeedsBootstrap == disk.state \in {"absent", "malformed"}

\* init() falls into generateInitialManifest, which sends one request built
\* from the specification and awaits the response.
InitBootstrapInvoke ==
    /\ pc = "start"
    /\ SpecReadable
    /\ NeedsBootstrap
    /\ specContent' = specFile
    /\ request' = BootRequest
    /\ pc' = "boot"
    /\ UNCHANGED <<exitCode, specFile, replay, disk, manifest, fs, dirs, errors, finished, calls,
                   unread, untilFinish, last, schemaOk, log>>

\* generateInitialManifest: anthropic.messages.create rejects; nothing in
\* generateInitialManifest catches it, the outer catch of init() exits with 1.
BootstrapCallFails ==
    /\ pc = "boot"
    /\ request' = NoRequest
    /\ pc' = "exited"
    /\ exitCode' = <<1>>
    /\ UNCHANGED <<specFile, replay, specContent, disk, manifest, fs, dirs, errors, finished,
                   calls, unread, untilFinish, last, schemaOk, log>>

\* Variant: an unparseable plan is asked for again.
BootstrapUnparseableRetries ==
    /\ pc = "boot"
    /\ request' = NoRequest
    /\ pc' = "start"
    /\ UNCHANGED <<exitCode, specFile, replay, specContent, disk, manifest, fs, dirs, errors,
                   finished, calls, unread, untilFinish, last, schemaOk, log>>

\* generateInitialManifest: JSON.parse of the response throws; exit with 1.
BootstrapUnparseable ==
    /\ pc = "boot"
    /\ request' = NoRequest
    /\ pc' = "exited"
    /\ exitCode' = <<1>>
    /\ UNCHANGED <<specFile, replay, specContent, disk, manifest, fs, dirs, errors, finished,
                   calls, unread, untilFinish, last, schemaOk, log>>

\* generateInitialManifest: the parsed response becomes this.manifest.files as
\* it is, and the manifest is saved.
BootstrapOk(files) ==
    /\ pc = "boot"
    /\ request' = NoRequest
    /\ manifest' = [files |-> files]
    /\ disk' = saveManifest(manifest')
    /\ pc' = "loop"
    /\ UNCHANGED <<exitCode, specFile, replay, specContent, fs, dirs, errors, finished, calls,
                   unread, untilFinish, last, schemaOk, log>>

\* ------------------------------------------------------------- generate()
\* Variant: the test for recorded feedback is off by one.
HasFeedbackOffByOne(errs) == Len(errs) > 1

\* if (errors.length > 0).
HasFeedback(errs) == Len(errs) > 0

\* The catch block of generate's loop: a failure while feedback is recorded
\* exits with 1; the first failure is recorded, split into lines, and the loop
\* goes on.  `errors` is assigned nowhere else.

CatchError(kind) ==
    /\ log' = Append(log, kind)
    /\ request' = NoRequest
    /\ IF HasFeedback(errors)
       THEN /\ pc' = "exited"
            /\ exitCode' = <<1>>
            /\ errors' = errors
       ELSE /\ pc' = "loop"
            /\ exitCode' = exitCode
            /\ errors' = Split(ErrorText(kind))

\* while (!finished): preload() of a specification that is no array throws
\* (this.specContent.map is not a function) outside the try block; the uncaught
\* rejection ends the process with a non-zero code.
PreloadCrash ==
    /\ pc = "loop"
    /\ ~finished
    /\ specContent = "nonarray"
    /\ pc' = "exited"
    /\ exitCode' = <<1>>
    /\ UNCHANGED <<specFile, replay, specContent, disk, manifest, fs, dirs, errors, finished,
                   request, calls, unread, untilFinish, last, schemaOk, log>>

\* One request: the current manifest and the fixes built from `errors`.
Invoke ==
    /\ pc = "loop"
    /\ ~finished
    /\ specContent = "array"
    /\ calls < MaxCycles
    /\ request' = BuildRequest(manifest, errors)
    /\ calls' = calls + 1
    /\ last' = NoCommand
    /\ schemaOk' = TRUE
    /\ pc' = "await"
    /\ UNCHANGED <<exitCode, specFile, replay, specContent, disk, manifest, fs, dirs, errors,
                   finished, unread, untilFinish, log>>

\* anthropic.messages.create rejects.
RespondCallFails ==
    /\ pc = "await"
    /\ CatchError("callfail")
    /\ UNCHANGED <<specFile, replay, specContent, disk, manifest, fs, dirs, finished, calls,
                   unread, untilFinish, last, schemaOk>>

\* JSON.parse(content) throws.
RespondUnparseable ==
    /\ pc = "await"
    /\ CatchError("parsefail")
    /\ UNCHANGED <<specFile, replay, specContent, disk, manifest, fs, dirs, finished, calls,
                   unread, untilFinish, last, schemaOk>>

\* The response parses to an array of n commands whose first Finish is at
\* position f (0: none); processCommands starts.
RespondBatch(n, f) ==
    /\ pc = "await"
    /\ unread' = n
    /\ untilFinish' = f
    /\ schemaOk' = TRUE
    /\ request' = NoRequest
    /\ pc' = "apply"
    /\ UNCHANGED <<exitCode, specFile, replay, specContent, disk, manifest, fs, dirs, errors,
                   finished, calls, last, log>>

\* The response parses to a JSON value that is no array and cannot be iterated
\* (an object, a number, a boolean, null): processCommands throws a TypeError
\* at `commands.length` or at the head of the for-loop, before any element is
\* read, and the catch block of generate runs.
RespondNotIterable ==
    /\ pc = "await"
    /\ schemaOk' = FALSE
    /\ CatchError("typeerror")
    /\ UNCHANGED <<specFile, replay, specContent, disk, manifest, fs, dirs, finished, calls,
                   unread, untilFinish, last>>

\* The response parses to the empty string: its length is 0, the for-loop
\* iterates over no character and processCommands returns false.
RespondEmptyString ==
    /\ pc = "await"
    /\ unread' = 0
    /\ untilFinish' = 0
    /\ schemaOk' = FALSE
    /\ request' = NoRequest
    /\ pc' = "apply"
    /\ UNCHANGED <<exitCode, specFile, replay, specContent, disk, manifest, fs, dirs, errors,
                   finished, calls, last, log>>

\* ------------------------------------------------------ processCommands()
\* The for-loop reads the next element, which is no Finish command.
ReadsCommand ==
    /\ pc = "apply"
    /\ unread > 0
    /\ untilFinish # 1

\* for (const command of commands): the loop moves on by one element.
Advance ==
    /\ unread' = unread - 1
    /\ untilFinish' = IF untilFinish > 0 THEN untilFinish - 1 ELSE 0

\* Variant: the status change is never flushed.
SaveNever(d, m, p) == d

\* if (file) { file.status = ...; await this.saveManifest(); }: the document
\* is rewritten only when an entry was found.
SaveIfFound(d, m, p) == IF FindIndex(m.files, p) # 0 THEN saveManifest(m) ELSE d

\* 'add' in command.
ApplyAdd(p, d) ==
    /\ ReadsCommand
    /\ Len(manifest.files) < MaxManifest
    /\ manifest' = PushEntry(manifest, p, d)
    /\ disk' = saveManifest(manifest')
    /\ Advance
    /\ last' = Command("add", p, d, NoContent, "ok")
    /\ schemaOk' = schemaOk
    /\ UNCHANGED <<pc, exitCode, specFile, replay, specContent, fs, dirs, errors, finished,
                   request, calls, log>>

\* 'update' in command, with content that fs.writeFile accepts: mkdir,
\* writeFile, then the first entry with the path becomes generated.
ApplyUpdate(p, c) ==
    /\ ReadsCommand
    /\ WriteAccepts(c)
    /\ dirs' = Mkdir(dirs, Dirname(p))
    /\ fs' = WriteFile(fs, p, c.text)
    /\ manifest' = SetStatus(manifest, p, "generated")
    /\ disk' = SaveIfFound(disk, manifest', p)
    /\ Advance
    /\ last' = Command("update", p, "", c, "ok")
    /\ schemaOk' = (schemaOk /\ c.type = "string")
    /\ UNCHANGED <<pc, exitCode, specFile, replay, specContent, errors, finished, request,
                   calls, log>>

\* Variant: the entry is marked generated before the write is attempted.
ApplyUpdateRejectedMarks(p, c) ==
    /\ ReadsCommand
    /\ ~WriteAccepts(c)
    /\ dirs' = Mkdir(dirs, Dirname(p))
    /\ manifest' = SetStatus(manifest, p, "generated")
    /\ disk' = SaveIfFound(disk, manifest', p)
    /\ Advance
    /\ last' = Command("update", p, "", c, "threw")
    /\ schemaOk' = FALSE
    /\ CatchError("typeerror")
    /\ UNCHANGED <<specFile, replay, specContent, fs, finished, calls>>

\* 'update' in command, with content that fs.writeFile rejects: the error is
\* logged, mkdir runs, writeFile throws, and the catch block of generate runs.
ApplyUpdateRejected(p, c) ==
    /\ ReadsCommand
    /\ ~WriteAccepts(c)
    /\ dirs' = Mkdir(dirs, Dirname(p))
    /\ Advance
    /\ last' = Command("update", p, "", c, "threw")
    /\ schemaOk' = FALSE
    /\ CatchError("typeerror")
    /\ UNCHANGED <<specFile, replay, specContent, disk, manifest, fs, finished, calls>>

\* 'remove' in command, the file exists: unlink, then the first entry with the
\* path becomes deleted.
ApplyRemove(p) ==
    /\ ReadsCommand
    /\ fs[p] # NoFile
    /\ fs' = Unlink(fs, p)
    /\ manifest' = SetStatus(manifest, p, "deleted")
    /\ disk' = SaveIfFound(disk, manifest', p)
    /\ Advance
    /\ last' = Command("remove", p, "", NoContent, "ok")
    /\ schemaOk' = schemaOk
    /\ UNCHANGED <<pc, exitCode, specFile, replay, specContent, dirs, errors, finished, request,
                   calls, log>>

\* Variant: the entry is marked deleted and saved before fs.unlink is tried.
ApplyRemoveMissingMarks(p) ==
    /\ ReadsCommand
    /\ fs[p] = NoFile
    /\ manifest' = SetStatus(manifest, p, "deleted")
    /\ disk' = SaveIfFound(disk, manifest', p)
    /\ Advance
    /\ last' = Command("remove", p, "", NoContent, "threw")
    /\ schemaOk' = schemaOk
    /\ CatchError("enoent")
    /\ UNCHANGED <<specFile, replay, specContent, fs, dirs, finished, calls>>

\* Variant: the rejection of fs.unlink is caught nowhere and ends the process.
ApplyRemoveMissingUncaught(p) ==
    /\ ReadsCommand
    /\ fs[p] = NoFile
    /\ Advance
    /\ last' = Command("remove", p, "", NoContent, "threw")
    /\ schemaOk' = schemaOk
    /\ log' = Append(log, "enoent")
    /\ request' = NoRequest
    /\ pc' = "exited"
    /\ exitCode' = <<1>>
    /\ UNCHANGED <<specFile, replay, specContent, disk, manifest, fs, dirs, errors,
                   finished, calls>>

\* 'remove' in command, no file at the path: fs.unlink throws ENOENT and the
\* catch block of generate runs.
ApplyRemoveMissing(p) ==
    /\ ReadsCommand
    /\ fs[p] = NoFile
    /\ Advance
    /\ last' = Command("remove", p, "", NoContent, "threw")
    /\ schemaOk' = schemaOk
    /\ CatchError("enoent")
    /\ UNCHANGED <<specFile, replay, specContent, disk, manifest, fs, dirs, finished, calls>>

\* The element is an object with none of the keys add, update, remove and
\* finish: no branch of the if-chain is taken and the loop moves on.
ApplyUnknown ==
    /\ ReadsCommand
    /\ Advance
    /\ last' = Command("unknown", RootDir, "", NoContent, "ok")
    /\ schemaOk' = FALSE
    /\ UNCHANGED <<pc, exitCode, specFile, replay, specContent, disk, manifest, fs, dirs, errors,
                   finished, request, calls, log>>

\* The element is no object (a number, a string, a boolean, null; a character
\* of a response that is a string): `'add' in command` throws a TypeError and
\* the catch block of generate runs.
ApplyNotObject ==
    /\ ReadsCommand
    /\ Advance
    /\ last' = Command("primitive", RootDir, "", NoContent, "threw")
    /\ schemaOk' = FALSE
    /\ CatchError("typeerror")
    /\ UNCHANGED <<specFile, replay, specContent, disk, manifest, fs, dirs, finished, calls>>

\* Variant: the Finish command prints its report and the loop goes on.
ApplyFinishFallsThrough ==
    /\ pc = "apply"
    /\ unread > 0
    /\ untilFinish = 1
    /\ Advance
    /\ last' = Command("finish", RootDir, "", NoContent, "ok")
    /\ schemaOk' = schemaOk
    /\ log' = Append(log, "finish")
    /\ UNCHANGED <<pc, exitCode, specFile, replay, specContent, disk, manifest, fs, dirs, errors,
                   finished, request, calls>>

\* 'finish' in command: return true; finished = true ends the while loop,
\* generate returns and the process ends with code 0.  The elements after the
\* Finish command stay unread.
ApplyFinish ==
    /\ pc = "apply"
    /\ unread > 0
    /\ untilFinish = 1
    /\ Advance
    /\ last' = Command("finish", RootDir, "", NoContent, "ok")
    /\ schemaOk' = schemaOk
    /\ log' = Append(log, "finish")
    /\ finished' = TRUE
    /\ pc' = "exited"
    /\ exitCode' = <<0>>
    /\ UNCHANGED <<specFile, replay, specContent, disk, manifest, fs, dirs, errors, request,
                   calls>>

\* The for-loop ends: return false, and the while loop goes round again.
LoopEnd ==
    /\ pc = "apply"
    /\ unread = 0
    /\ finished' = FALSE
    /\ last' = NoCommand
    /\ schemaOk' = TRUE
    /\ log' = Append(log, "ok")
    /\ pc' = "loop"
    /\ UNCHANGED <<exitCode, specFile, replay, specContent, disk, manifest, fs, dirs, errors,
                   request, calls, unread, untilFinish>>

Next ==
    \/ InitSpecFails
    \/ InitLoad
    \/ InitBootstrapInvoke
    \/ BootstrapCallFails
    \/ BootstrapUnparseable
    \/ \E files \in SeqsUpTo(ManifestFile, MaxPlan) : BootstrapOk(files)
    \/ PreloadCrash
    \/ Invoke
    \/ RespondCallFails
    \/ RespondUnparseable
    \/ RespondNotIterable
    \/ RespondEmptyString
    \/ \E n \in 0..MaxBatch : \E f \in 0..n : RespondBatch(n, f)
    \/ \E p \in Paths, d \in Descriptions : ApplyAdd(p, d)
    \/ \E p \in Paths, c \in Contents : ApplyUpdate(p, c)
    \/ \E p \in Paths, c \in Contents : ApplyUpdateRejected(p, c)
    \/ \E p \in Paths : ApplyRemove(p)
    \/ \E p \in Paths : ApplyRemoveMissing(p)
    \/ ApplyUnknown
    \/ ApplyNotObject
    \/ ApplyFinish
    \/ LoopEnd

Spec == Init /\ [][Next]_vars

\* ============================================ src/src/batchDownload.ts
\* The batch-replay client: main() passes each command file of argv to
\* processCommandFile in turn.  replay.results holds, per file attempted, how
\* processCommandFile ended; replay.cmd is the kind of the element read last
\* from the file being processed and replay.said the message written last.
generatorVars == <<pc, exitCode, specFile, specContent, disk, manifest, errors, finished,
                   request, calls, unread, untilFinish, last, schemaOk, log>>

ReplayInit ==
    /\ pc = "start"
    /\ exitCode = <<>>
    /\ specFile = "missing"
    /\ specContent = "undefined"
    /\ disk = AbsentDoc
    /\ manifest = [files |-> <<>>]
    /\ fs \in [Paths -> Texts \cup {NoFile}]
    /\ dirs \in SUBSET Dirs
    /\ \A p \in Paths : fs[p] # NoFile => Dirname(p) \in dirs \cup {RootDir}
    /\ errors = <<>>
    /\ finished = FALSE
    /\ request = NoRequest
    /\ calls = 0
    /\ unread = 0
    /\ untilFinish = 0
    /\ last = NoCommand
    /\ schemaOk = TRUE
    /\ log = <<>>
    /\ \E n \in 0..MaxFiles :
          replay = [pc |-> "main", argc |-> n, results |-> <<>>, unread |-> 0,
                    cmd |-> "none", said |-> "", exit |-> <<>>]

\* ensureDirectoryExists: mkdir(dirname(filePath), { recursive: true }).
ensureDirectoryExists(ds, p) == Mkdir(ds, Dirname(p))

\* main: no command file was given.
ReplayNoArgs ==
    /\ replay.pc = "main"
    /\ replay.argc = 0
    /\ replay' = [replay EXCEPT !.pc = "exited", !.exit = <<1>>, !.said = "usage"]
    /\ UNCHANGED <<generatorVars, fs, dirs>>

\* for (const file of commandFiles): a file is left to be processed.
ReplayFileLeft == replay.pc = "main" /\ Len(replay.results) < replay.argc

\* processCommandFile: readFile rejects; the outer catch writes a message and
\* the function returns.
ReplayUnreadable ==
    /\ ReplayFileLeft
    /\ replay' = [replay EXCEPT !.results = Append(@, "unreadable"),
                                !.said = "Error processing file"]
    /\ UNCHANGED <<generatorVars, fs, dirs>>

\* processCommandFile: JSON.parse throws; the inner catch writes a message and
\* returns.
ReplayUnparseable ==
    /\ ReplayFileLeft
    /\ replay' = [replay EXCEPT !.results = Append(@, "unparseable"),
                                !.said = "Error parsing JSON"]
    /\ UNCHANGED <<generatorVars, fs, dirs>>

\* processCommandFile: the text parses to a value that is no array; the Error
\* thrown at once is caught by the same inner catch.
ReplayNotArray ==
    /\ ReplayFileLeft
    /\ replay' = [replay EXCEPT !.results = Append(@, "notarray"),
                                !.said = "Error parsing JSON"]
    /\ UNCHANGED <<generatorVars, fs, dirs>>

\* processCommandFile: the text parses to an array of n elements.
ReplayCommands(n) ==
    /\ ReplayFileLeft
    /\ replay' = [replay EXCEPT !.cmd = "none", !.pc = "commands", !.unread = n,
                                !.said = "Reading command file"]
    /\ UNCHANGED <<generatorVars, fs, dirs>>

\* for (const command of commands): an element is left to be read.
ReplayReads == replay.pc = "commands" /\ replay.unread > 0

\* Variant: a write that fails ends processCommandFile.
ReplayUpdateRejectedAbandons(p, c) ==
    /\ ReplayReads
    /\ ~WriteAccepts(c)
    /\ dirs' = ensureDirectoryExists(dirs, p)
    /\ replay' = [replay EXCEPT !.cmd = "update", !.pc = "main", !.results = Append(@, "aborted"),
                                !.said = "Error writing file"]
    /\ UNCHANGED <<generatorVars, fs>>

\* isUpdateCommand, and writeFile rejects the content: the catch around the
\* write prints a message and the loop goes on.
ReplayUpdateRejected(p, c) ==
    /\ ReplayReads
    /\ ~WriteAccepts(c)
    /\ dirs' = ensureDirectoryExists(dirs, p)
    /\ replay' = [replay EXCEPT !.cmd = "update", !.unread = @ - 1,
                                !.said = "Error writing file"]
    /\ UNCHANGED <<generatorVars, fs>>

\* isUpdateCommand: the directory is ensured and the file written.
ReplayUpdate(p, c) ==
    /\ ReplayReads
    /\ WriteAccepts(c)
    /\ dirs' = ensureDirectoryExists(dirs, p)
    /\ fs' = WriteFile(fs, p, c.text)
    /\ replay' = [replay EXCEPT !.cmd = "update", !.unread = @ - 1,
                                !.said = "Successfully wrote"]
    /\ UNCHANGED generatorVars

\* isContinueCommand: the pending files are listed.
ReplayContinue ==
    /\ ReplayReads
    /\ replay' = [replay EXCEPT !.cmd = "continue", !.unread = @ - 1,
                                !.said = "Pending files"]
    /\ UNCHANGED <<generatorVars, fs, dirs>>

\* isFinishCommand: the report is printed; the loop goes on.
ReplayFinish ==
    /\ ReplayReads
    /\ replay' = [replay EXCEPT !.cmd = "finish", !.unread = @ - 1,
                                !.said = "Processing complete"]
    /\ UNCHANGED <<generatorVars, fs, dirs>>

\* An object with none of the keys update, continue and finish: nothing happens.
ReplayUnknown ==
    /\ ReplayReads
    /\ replay' = [replay EXCEPT !.cmd = "unknown", !.unread = @ - 1]
    /\ UNCHANGED <<generatorVars, fs, dirs>>

\* An element that is no object, or whose update or continue payload is null:
\* the TypeError is thrown outside the inner try, the outer catch writes a
\* message and processCommandFile returns with the rest of the file unread.
ReplayElementThrows ==
    /\ ReplayReads
    /\ replay' = [replay EXCEPT !.cmd = "primitive", !.pc = "main",
                                !.results = Append(@, "aborted"),
                                !.said = "Error processing file"]
    /\ UNCHANGED <<generatorVars, fs, dirs>>

\* The for-loop of processCommandFile ends.
ReplayFileEnd ==
    /\ replay.pc = "commands"
    /\ replay.unread = 0
    /\ replay' = [replay EXCEPT !.pc = "main", !.results = Append(@, "read")]
    /\ UNCHANGED <<generatorVars, fs, dirs>>

\* The for-loop of main ends and main() resolves: the process ends with code 0.
ReplayDone ==
    /\ replay.pc = "main"
    /\ replay.argc > 0
    /\ Len(replay.results) = replay.argc
    /\ replay' = [replay EXCEPT !.pc = "exited", !.exit = <<0>>]
    /\ UNCHANGED <<generatorVars, fs, dirs>>

ReplayNext ==
    \/ ReplayNoArgs
    \/ ReplayUnreadable
    \/ ReplayUnparseable
    \/ ReplayNotArray
    \/ \E n \in 0..MaxBatch : ReplayCommands(n)
    \/ \E p \in Paths, c \in Contents : ReplayUpdateRejected(p, c)
    \/ \E p \in Paths, c \in Contents : ReplayUpdate(p, c)
    \/ ReplayContinue
    \/ ReplayFinish
    \/ ReplayUnknown
    \/ ReplayElementThrows
    \/ ReplayFileEnd
    \/ ReplayDone

ReplaySpec == ReplayInit /\ [][ReplayNext]_vars

\* ============================================ src/unnamed/part_001
\* The single-shot driver: the same program with an earlier generate().  Its
\* init, generateInitialManifest, saveManifest and processCommands are the
\* code of src/src/index.ts statement for statement (part_001 lines 60-162;
\* only the logging calls and the wording of the bootstrap request differ), so
\* their actions above are its actions too.  Its generate (lines 164-201) has
\* no preload and no `errors`: each request carries the specification and the
\* current manifest, and the catch block of the loop calls process.exit(1).

\* Variant: the catch block logs the error and the while loop goes on.
SingleShotCatchRetries(kind) ==
    /\ log' = Append(log, kind)
    /\ request' = NoRequest
    /\ pc' = "loop"
    /\ exitCode' = exitCode
    /\ errors' = errors

\* catch (error) { console.error(...); process.exit(1); }
SingleShotCatch(kind) ==
    /\ log' = Append(log, kind)
    /\ request' = NoRequest
    /\ pc' = "exited"
    /\ exitCode' = <<1>>
    /\ errors' = errors

\* The messages of one request: JSON.stringify of the specification, which any
\* JSON value has, and of the current manifest.
SingleShotRequest(m) == [to |-> "generate", manifest |-> Stringify(m), fixes |-> <<>>]

\* while (!finished): one request is sent.
SingleShotInvoke ==
    /\ pc = "loop"
    /\ ~finished
    /\ calls < MaxCycles
    /\ request' = SingleShotRequest(manifest)
    /\ calls' = calls + 1
    /\ last' = NoCommand
    /\ schemaOk' = TRUE
    /\ pc' = "await"
    /\ UNCHANGED <<exitCode, specFile, replay, specContent, disk, manifest, fs, dirs, errors,
                   finished, unread, untilFinish, log>>

\* anthropic.messages.create rejects.
SingleShotCallFails ==
    /\ pc = "await"
    /\ SingleShotCatch("callfail")
    /\ UNCHANGED <<specFile, replay, specContent, disk, manifest, fs, dirs, finished, calls,
                   unread, untilFinish, last, schemaOk>>

\* JSON.parse(content) throws.
SingleShotUnparseable ==
    /\ pc = "await"
    /\ SingleShotCatch("parsefail")
    /\ UNCHANGED <<specFile, replay, specContent, disk, manifest, fs, dirs, finished, calls,
                   unread, untilFinish, last, schemaOk>>

\* The response parses to a value that cannot be iterated: processCommands
\* throws a TypeError before any element is read.
SingleShotNotIterable ==
    /\ pc = "await"
    /\ schemaOk' = FALSE
    /\ SingleShotCatch("typeerror")
    /\ UNCHANGED <<specFile, replay, specContent, disk, manifest, fs, dirs, finished, calls,
                   unread, untilFinish, last>>

\* 'update' in command, with content that fs.writeFile rejects: mkdir runs,
\* writeFile throws.
SingleShotUpdateRejected(p, c) ==
    /\ ReadsCommand
    /\ ~WriteAccepts(c)
    /\ dirs' = Mkdir(dirs, Dirname(p))
    /\ Advance
    /\ last' = Command("update", p, "", c, "threw")
    /\ schemaOk' = FALSE
    /\ SingleShotCatch("typeerror")
    /\ UNCHANGED <<specFile, replay, specContent, disk, manifest, fs, finished, calls>>

\* 'remove' in command, no file at the path: fs.unlink throws ENOENT.
SingleShotRemoveMissing(p) ==
    /\ ReadsCommand
    /\ fs[p] = NoFile
    /\ Advance
    /\ last' = Command("remove", p, "", NoContent, "threw")
    /\ schemaOk' = schemaOk
    /\ SingleShotCatch("enoent")
    /\ UNCHANGED <<specFile, replay, specContent, disk, manifest, fs, dirs, finished, calls>>

\* The element is no object: `'add' in command` throws a TypeError.
SingleShotNotObject ==
    /\ ReadsCommand
    /\ Advance
    /\ last' = Command("primitive", RootDir, "", NoContent, "threw")
    /\ schemaOk' = FALSE
    /\ SingleShotCatch("typeerror")
    /\ UNCHANGED <<specFile, replay, specContent, disk, manifest, fs, dirs, finished, calls>>

SingleShotNext ==
    \/ InitSpecFails
    \/ InitLoad
    \/ InitBootstrapInvoke
    \/ BootstrapCallFails
    \/ BootstrapUnparseable
    \/ \E files \in SeqsUpTo(ManifestFile, MaxPlan) : BootstrapOk(files)
    \/ SingleShotInvoke
    \/ SingleShotCallFails
    \/ SingleShotUnparseable
    \/ SingleShotNotIterable
    \/ RespondEmptyString
    \/ \E n \in 0..MaxBatch : \E f \in 0..n : RespondBatch(n, f)
    \/ \E p \in Paths, d \in Descriptions : ApplyAdd(p, d)
    \/ \E p \in Paths, c \in Contents : ApplyUpdate(p, c)
    \/ \E p \in Paths, c \in Contents : SingleShotUpdateRejected(p, c)
    \/ \E p \in Paths : ApplyRemove(p)
    \/ \E p \in Paths : SingleShotRemoveMissing(p)
    \/ ApplyUnknown
    \/ SingleShotNotObject
    \/ ApplyFinish
    \/ LoopEnd

SingleShotSpec == Init /\ [][SingleShotNext]_vars

\* ================================================================ claims
\* Helpers of the claims, written independently of the model's operators.
LastOf(sq) == sq[Len(sq)]

CycleFailed(i) == log[i] \in FailKinds

FailedCycles == {i \in 1..Len(log) : CycleFailed(i)}

\* Cycle i is invocation i; it was followed by a further invocation.
RetriedCycles == {i \in FailedCycles : calls > i}

\* The lines of a text put together again with newlines between them.
RECURSIVE JoinLines(_)
JoinLines(lines) ==
    IF Len(lines) = 0 THEN <<>>
    ELSE IF Len(lines) = 1 THEN lines[1]
    ELSE lines[1] \o <<NL>> \o JoinLines(Tail(lines))

\* The error text a list of fix messages carries.
FeedbackText(fixes) == JoinLines([i \in 1..Len(fixes) |-> Tail(fixes[i].content)])

\* A step of the command loop of processCommands that read one element.
CommandStep == pc = "apply" /\ unread' = unread - 1

\* The batch of the running (or last) cycle held a Finish command.
BatchHadFinish == (Len(log) > 0 /\ LastOf(log) = "finish") \/ untilFinish > 0

\* ---------------------------------------------------------------- C1
\* C1 as stated: after a first response that fails (call failure or
\* unparseable text), a second response that is a well-formed batch containing
\* Finish ends the run Finished with outcome 0; two failing responses in a row
\* end it with outcome 1 after two invocations.
C1_RetryThenFinishAlwaysSucceeds ==
    /\ (/\ pc = "exited"
        /\ Len(log) = 2
        /\ log[1] \in PreFailKinds
        /\ schemaOk
        /\ BatchHadFinish)
       => (finished /\ exitCode = <<0>>)
    /\ (Len(log) >= 2 /\ log[1] \in PreFailKinds /\ log[2] \in PreFailKinds)
       => (pc = "exited" /\ exitCode = <<1>> /\ calls = 2)

\* C1 amended: a first failed response is not fatal and is followed by a
\* second invocation; when the second response is a well-formed batch whose
\* commands before its Finish all apply without error, the run ends Finished
\* with outcome 0 after two invocations; when the second response fails too,
\* the run ends with outcome 1 and no third invocation is made.
C1_RetryThenFinish ==
    /\ (Len(log) = 1 /\ log[1] \in PreFailKinds)
       => (pc \in {"loop", "await", "apply"} /\ exitCode = <<>> /\ ~finished)
    /\ (Len(log) = 2 /\ log[1] \in PreFailKinds /\ log[2] = "finish")
       => (pc = "exited" /\ finished /\ exitCode = <<0>> /\ calls = 2)
    /\ (Len(log) >= 2 /\ log[1] \in PreFailKinds /\ log[2] \in FailKinds)
       => (pc = "exited" /\ exitCode = <<1>> /\ calls = 2 /\ Len(log) = 2)
    /\ (/\ pc = "exited"
        /\ Len(log) = 2
        /\ log[1] \in PreFailKinds
        /\ schemaOk
        /\ BatchHadFinish)
       => (log[2] = "finish" \/ (log[2] = "enoent" /\ last.result = "threw"))

C1_Witness ==
    /\ pc = "exited"
    /\ log = <<"parsefail", "finish">>
    /\ exitCode = <<0>>
    /\ calls = 2

\* ---------------------------------------------------------------- C2
\* C2: a cycle that succeeds clears the pending error feedback, so the run is
\* fatal only when the failing cycle directly follows another failing cycle.
C2_SuccessClearsFeedback ==
    /\ (pc = "loop" /\ Len(log) > 0 /\ LastOf(log) = "ok") => errors = <<>>
    /\ (pc = "exited" /\ exitCode = <<1>> /\ Len(log) > 0 /\ LastOf(log) \in FailKinds)
       => (Len(log) >= 2 /\ log[Len(log) - 1] \in FailKinds)

\* ---------------------------------------------------------------- C3
\* C3: at most one failed cycle of a run is followed by a further generator
\* invocation, the request of that invocation carries the error text of the
\* failed cycle as feedback, and no run has more than two failed cycles.
C3_OneRetryCredit ==
    /\ Cardinality(RetriedCycles) <= 1
    /\ Cardinality(FailedCycles) <= 2
    /\ (pc = "await" /\ Len(log) > 0 /\ LastOf(log) \in FailKinds)
       => (/\ request.to = "generate"
           /\ Len(request.fixes) > 0
           /\ \A i \in 1..Len(request.fixes) : request.fixes[i].role = "user"
           /\ FeedbackText(request.fixes) = ErrorText(LastOf(log)))

C3_Witness ==
    /\ pc = "await"
    /\ log = <<"ok", "callfail">>
    /\ Len(request.fixes) = 2

\* ---------------------------------------------------------------- C4
\* C4: the step that reads a Finish command applies nothing, returns true and
\* ends the run; once a Finish was read, no later element of the batch is
\* applied (no file, directory or manifest change) and no generator invocation
\* follows; a batch read to its end without a Finish returns false and the
\* loop is ready to send the next request.
C4_FinishStops ==
    /\ [][(CommandStep /\ untilFinish = 1)
            => (/\ finished' /\ pc' = "exited" /\ exitCode' = <<0>>
                /\ last'.kind = "finish"
                /\ UNCHANGED <<manifest, disk, fs, dirs, calls>>)]_vars
    /\ [][(Len(log) > 0 /\ LastOf(log) = "finish")
            => UNCHANGED <<manifest, disk, fs, dirs, calls, request, unread>>]_vars
    /\ [][(pc = "apply" /\ unread = 0)
            => (~finished' /\ pc' = "loop" /\ LastOf(log') = "ok")]_vars
    /\ [](finished <=> (Len(log) > 0 /\ LastOf(log) = "finish"))
    /\ []((pc = "loop" /\ Len(log) > 0 /\ LastOf(log) = "ok" /\ calls < MaxCycles)
            => ENABLED Invoke)

C4_Witness ==
    /\ finished
    /\ pc = "exited"
    /\ last.kind = "finish"
    /\ unread > 0
    /\ Len(log) = 2
    /\ log[1] = "ok"

\* The index of the first entry with path p, as a set: empty or one index.
FirstWith(files, p) ==
    {i \in 1..Len(files) : files[i].path = p /\ \A j \in 1..(i - 1) : files[j].path # p}

\* files with the status of the entries at the indexes in `at` set to st.
WithStatus(files, at, st) ==
    [i \in 1..Len(files) |->
        IF i \in at THEN [path |-> files[i].path, description |-> files[i].description,
                          status |-> st]
        ELSE files[i]]

OtherFilesKept(p) == \A q \in Paths \ {p} : fs'[q] = fs[q]

AllowedTransitions ==
    {<<"pending", "generated">>, <<"pending", "deleted">>, <<"generated", "deleted">>}

\* ---------------------------------------------------------------- C5
\* C5: no Add, Update, Remove or Finish command applied by processCommands
\* removes a manifest entry (the length never decreases, existing entries keep
\* position, path and description), and a status changes only Pending to
\* Generated, Pending to Deleted or Generated to Deleted, so Deleted is never
\* left.
C5_DeletedIsTerminal ==
    [][(pc = "apply" /\ schemaOk')
        => (/\ Len(manifest'.files) >= Len(manifest.files)
            /\ \A i \in 1..Len(manifest.files) :
                /\ manifest'.files[i].path = manifest.files[i].path
                /\ manifest'.files[i].description = manifest.files[i].description
                /\ \/ manifest'.files[i].status = manifest.files[i].status
                   \/ <<manifest.files[i].status, manifest'.files[i].status>>
                        \in AllowedTransitions)]_vars

\* ---------------------------------------------------------------- C6
\* C6: an Update command whose content is a string leaves the file at its path
\* holding exactly that content and no other file changed; the first entry with
\* the path, if there is one, becomes Generated and nothing else in the
\* manifest changes; with no such entry the file is written all the same and
\* the manifest, in memory and persisted, stays as it was.
C6_UpdateWritesAndMarks ==
    [][(CommandStep /\ last'.kind = "update" /\ last'.content.type = "string")
        => (/\ last'.result = "ok"
            /\ fs'[last'.path] = last'.content.text
            /\ OtherFilesKept(last'.path)
            /\ manifest'.files
                 = WithStatus(manifest.files, FirstWith(manifest.files, last'.path),
                              "generated")
            /\ FirstWith(manifest.files, last'.path) = {}
                 => (manifest' = manifest /\ disk' = disk))]_vars

C6_Witness ==
    /\ last.kind = "update"
    /\ last.result = "ok"
    /\ last.content.type = "string"
    /\ fs[last.path] = last.content.text
    /\ Len(manifest.files) > 0
    /\ FirstWith(manifest.files, last.path) = {}

\* ---------------------------------------------------------------- C7
\* C7: a Remove command on a path whose file exists leaves no file at the path
\* and every other file as it was; the first entry with the path, if there is
\* one, becomes Deleted and stays in the manifest, whose length and other
\* entries do not change.
C7_RemoveDeletesAndMarks ==
    [][(CommandStep /\ last'.kind = "remove" /\ fs[last'.path] # NoFile)
        => (/\ last'.result = "ok"
            /\ fs'[last'.path] = NoFile
            /\ OtherFilesKept(last'.path)
            /\ Len(manifest'.files) = Len(manifest.files)
            /\ manifest'.files
                 = WithStatus(manifest.files, FirstWith(manifest.files, last'.path),
                              "deleted"))]_vars

C7_Witness ==
    /\ last.kind = "remove"
    /\ last.result = "ok"
    /\ fs[last.path] = NoFile
    /\ Len(manifest.files) = 2
    /\ manifest.files[1].path = last.path
    /\ manifest.files[2].path = last.path
    /\ manifest.files[1].status = "deleted"
    /\ manifest.files[2].status # "deleted"

\* ---------------------------------------------------------------- C8
\* C8: an Add command appends exactly one entry {path, description, Pending}
\* at the end of the manifest, also when an entry with the path exists, changes
\* no existing entry and changes no project file or directory.
C8_AddAppendsOnly ==
    [][(CommandStep /\ last'.kind = "add")
        => (/\ last'.result = "ok"
            /\ manifest'.files
                 = Append(manifest.files,
                          [path |-> last'.path, description |-> last'.description,
                           status |-> "pending"])
            /\ fs' = fs
            /\ dirs' = dirs)]_vars

C8_Witness ==
    /\ last.kind = "add"
    /\ Len(manifest.files) = 2
    /\ manifest.files[1].path = last.path
    /\ manifest.files[2].path = last.path
    /\ manifest.files[1].status = "generated"
    /\ manifest.files[2].status = "pending"

\* ---------------------------------------------------------------- C9
\* The manifest document after one command, computed on the document.
ExpectedDoc(doc, cmd) ==
    LET first == {i \in 1..Len(doc) :
                    doc[i][1] = cmd.path /\ \A j \in 1..(i - 1) : doc[j][1] # cmd.path}
        marked(st) == [i \in 1..Len(doc) |->
                        IF i \in first THEN <<doc[i][1], doc[i][2], st>> ELSE doc[i]]
    IN  IF cmd.result # "ok" THEN doc
        ELSE CASE cmd.kind = "add" -> Append(doc, <<cmd.path, cmd.description, "pending">>)
               [] cmd.kind = "update" -> marked("generated")
               [] cmd.kind = "remove" -> marked("deleted")
               [] OTHER -> doc

\* C9: between any two commands of a batch, and between cycles, the persisted
\* manifest document lists exactly the entries of the in-memory manifest, and
\* each command changes the document by its own effect only, whatever commands
\* follow it in the batch.
C9_FlushPerMutation ==
    /\ []((pc \in {"loop", "await", "apply"} \/ (pc = "exited" /\ Len(log) > 0))
            => (/\ disk.state = "json"
                /\ Len(disk.doc) = Len(manifest.files)
                /\ \A i \in 1..Len(disk.doc) :
                      disk.doc[i] = <<manifest.files[i].path,
                                      manifest.files[i].description,
                                      manifest.files[i].status>>))
    /\ [][CommandStep => disk'.doc = ExpectedDoc(disk.doc, last')]_vars

C9_Witness ==
    /\ pc = "apply"
    /\ unread > 0
    /\ last.kind = "update"
    /\ last.result = "ok"
    /\ \E i \in FirstWith(manifest.files, last.path) : disk.doc[i][3] = "generated"

\* --------------------------------------------------------------- C10
\* C10: an Update command whose content is not a string writes nothing to the
\* filesystem, has its error surfaced to the caller, and the error is
\* recoverable: it does not end the run.
C10_NonStringUpdateSkipped ==
    [][(CommandStep /\ last'.kind = "update" /\ last'.content.type # "string")
        => (/\ fs' = fs
            /\ last'.result = "threw"
            /\ pc' # "exited")]_vars

C12_SchemaViolationIsFailure ==
    /\ pc = "apply" => schemaOk
    /\ (pc # "apply" /\ ~schemaOk)
        => (/\ Len(log) > 0
            /\ LastOf(log) \in FailKinds
            /\ Cardinality(FailedCycles) = 1 => JoinLines(errors) = ErrorText(LastOf(log)))

\* --------------------------------------------------------------- C13
\* C13: with no manifest document at Init, the bootstrap request is sent once
\* (only out of init(), never again), and the manifest that results from its
\* response, in memory and persisted, holds only Pending entries, whatever
\* the generator returned.
C13_BootstrapOnlyPending ==
    /\ [][pc' = "boot" => (pc = "start" /\ request'.to = "bootstrap")]_vars
    /\ [][request'.to = "bootstrap" => pc = "start"]_vars
    /\ [][(pc = "boot" /\ disk.state = "absent" /\ pc' = "loop")
            => (/\ \A i \in 1..Len(manifest'.files) :
                      manifest'.files[i].status = "pending"
                /\ disk'.state = "json"
                /\ Len(disk'.doc) = Len(manifest'.files)
                /\ \A i \in 1..Len(disk'.doc) : disk'.doc[i][3] = "pending")]_vars

\* --------------------------------------------------------------- C14
\* C14: the bootstrap request is sent only when the manifest document is
\* absent; a document that exists but does not parse makes the load fail, so
\* the run is then either not yet past init() or over, and the generator is
\* not asked for a replacement.
C14_MalformedIsNotBootstrapped ==
    /\ pc = "boot" => disk.state = "absent"
    /\ request.to = "bootstrap" => disk.state = "absent"
    /\ disk.state = "malformed" => pc \in {"start", "exited"}

\* --------------------------------------------------------------- C15
\* C15: the process has an exit code exactly when it has ended; the code is 0
\* exactly when the run ended by reading a Finish command; it is 1 when the
\* specification cannot be read or parsed (no generator call is made), when
\* the bootstrap call or the parse of its response fails (at once: no retry,
\* no cycle of the main loop, manifest and document untouched), and when a
\* second cycle of the main loop fails.
C15_ExitCodes ==
    /\ [](exitCode \in {<<>>, <<0>>, <<1>>})
    /\ [](pc = "exited" <=> exitCode # <<>>)
    /\ [](exitCode = <<0>>
            <=> (pc = "exited" /\ finished /\ last.kind = "finish" /\ last.result = "ok"))
    /\ [][(exitCode = <<>> /\ exitCode' = <<0>>) => (CommandStep /\ untilFinish = 1)]_vars
    /\ []((specFile \in {"missing", "malformed"} /\ pc # "start")
            => (/\ pc = "exited" /\ exitCode = <<1>>
                /\ calls = 0 /\ request = NoRequest /\ log = <<>>))
    /\ [][pc = "boot"
            => \/ pc' = "loop" /\ disk'.state = "json"
               \/ /\ pc' = "exited" /\ exitCode' = <<1>>
                  /\ calls' = 0 /\ log' = <<>>
                  /\ UNCHANGED <<manifest, disk>>]_vars
    /\ [](Cardinality(FailedCycles) = 2 => (pc = "exited" /\ exitCode = <<1>>))

C15_Witness ==
    /\ pc = "exited"
    /\ exitCode = <<1>>
    /\ specContent = "array"
    /\ disk.state = "absent"
    /\ calls = 0
    /\ log = <<>>

\* --------------------------------------------------------------- C16
\* C16: given at least one command file, the batch-replay client never ends
\* with a fatal outcome and ends only after every file was attempted, in
\* order; a file that cannot be read or parsed is logged and the next file is
\* up; an Update whose write fails is logged, writes no file, and the next
\* command of the same file is up.
C16_ReplayNeverFatal ==
    /\ [](replay.argc > 0 => replay.exit # <<1>>)
    /\ [](replay.exit = <<0>> => Len(replay.results) = replay.argc)
    /\ [](Len(replay.results) <= replay.argc)
    /\ [][\/ replay'.results = replay.results
          \/ \E r \in {"unreadable", "unparseable", "notarray", "aborted", "read"} :
                replay'.results = Append(replay.results, r)]_vars
    /\ [][(/\ replay.pc = "main"
           /\ Len(replay'.results) > Len(replay.results)
           /\ replay'.results[Len(replay'.results)] \in {"unreadable", "unparseable", "notarray"})
            => (/\ replay'.pc = "main"
                /\ replay'.said \in {"Error processing file", "Error parsing JSON"}
                /\ replay'.exit = <<>>
                /\ fs' = fs)]_vars
    /\ [][(/\ replay.pc = "commands" /\ replay.unread > 0
           /\ replay'.cmd = "update" /\ replay'.said # "Successfully wrote")
            => (/\ replay'.pc = "commands"
                /\ replay'.said = "Error writing file"
                /\ replay'.unread = replay.unread - 1
                /\ replay'.results = replay.results
                /\ replay'.exit = <<>>
                /\ fs' = fs)]_vars

C16_Witness ==
    /\ replay.pc = "exited"
    /\ replay.exit = <<0>>
    /\ replay.results = <<"unparseable", "read">>
    /\ replay.said = "Error writing file"

\* --------------------------------------------------------------- C17
\* C17: for every specification document that parses, whatever its shape,
\* init() completes with the document loaded, and every pass of the main loop
\* leads to a request to the generator: the only step out of the loop head
\* is the invocation, and no run ends there.
C17_SpecShapeIsOpaque ==
    /\ []((specFile \in {"array", "nonarray"} /\ pc # "start") => specContent = specFile)
    /\ [][pc = "loop" => (pc' = "await" /\ request'.to = "generate")]_vars

\* --------------------------------------------------------------- C18
\* A step of the command loop whose command threw.
FailedCommandStep == CommandStep /\ last'.result = "threw"

\* The manifest document that lists the entries of m.
DocOf(m) ==
    [i \in 1..Len(m.files) |-> <<m.files[i].path, m.files[i].description, m.files[i].status>>]

\* What C18 says besides the effects a failed command leaves: a command that
\* succeeds touches only the file and the entries of its own path and leaves
\* the first entry of that path in step with the file (Generated: the file
\* is there; Deleted: it is gone); a failed command ends the command loop;
\* outside the command loop no file changes and, after init(), no entry; the
\* persisted manifest is the in-memory one when a command fails; and every
\* request carries the manifest as it is then.
C18_AppliedPrefixIsConsistent ==
    /\ [][(CommandStep /\ last'.result = "ok" /\ last'.kind \in {"update", "remove"})
            => (/\ \A q \in Paths \ {last'.path} : fs'[q] = fs[q]
                /\ Len(manifest'.files) = Len(manifest.files)
                /\ \A i \in 1..Len(manifest.files) :
                      manifest.files[i].path # last'.path
                          => manifest'.files[i] = manifest.files[i]
                /\ last'.kind = "update"
                      => (/\ fs'[last'.path] # NoFile
                          /\ \A i \in FirstWith(manifest'.files, last'.path) :
                                manifest'.files[i].status = "generated")
                /\ last'.kind = "remove"
                      => (/\ fs'[last'.path] = NoFile
                          /\ \A i \in FirstWith(manifest'.files, last'.path) :
                                manifest'.files[i].status = "deleted")
                /\ disk'.doc = DocOf(manifest'))]_vars
    /\ [][FailedCommandStep
            => (pc' \in {"loop", "exited"} /\ disk'.doc = DocOf(manifest'))]_vars
    /\ [][(pc \in {"loop", "await", "exited"})
            => (fs' = fs /\ dirs' = dirs /\ manifest' = manifest /\ disk' = disk)]_vars
    /\ [](pc = "await" => (request.manifest = DocOf(manifest) /\ request.manifest = disk.doc))

C19_FailedRemoveKeepsManifest ==
    [][(CommandStep /\ last'.kind = "remove" /\ fs[last'.path] = NoFile)
        => (/\ last'.result = "threw"
            /\ Len(manifest'.files) = Len(manifest.files)
            /\ \A i \in 1..Len(manifest.files) :
                  /\ manifest'.files[i].path = manifest.files[i].path
                  /\ manifest'.files[i].description = manifest.files[i].description
                  /\ manifest'.files[i].status = manifest.files[i].status
            /\ disk'.state = disk.state
            /\ disk'.doc = disk.doc
            /\ fs' = fs
            /\ dirs' = dirs)]_vars

C19_Witness ==
    /\ last.kind = "remove"
    /\ last.result = "threw"
    /\ fs[last.path] = NoFile
    /\ \E i \in FirstWith(manifest.files, last.path) :
          /\ manifest.files[i].status = "generated"
          /\ disk.doc[i][3] = "generated"

\* --------------------------------------------------------------- C20
\* C20: once the manifest is loaded, no step changes an entry that is not the
\* first entry with its path: such an entry keeps its place, path, description
\* and status; an entry that Add appends while an earlier entry has the same
\* path enters as Pending (and so stays Pending).
C20_OnlyFirstDuplicateChanges ==
    /\ [][(pc \in {"loop", "await", "apply"})
            => \A i \in 1..Len(manifest.files) :
                  i \notin FirstWith(manifest.files, manifest.files[i].path)
                      => (/\ Len(manifest'.files) >= i
                          /\ manifest'.files[i].path = manifest.files[i].path
                          /\ manifest'.files[i].description = manifest.files[i].description
                          /\ manifest'.files[i].status = manifest.files[i].status)]_vars
    /\ [][(CommandStep /\ last'.kind = "add" /\ FirstWith(manifest.files, last'.path) # {})
            => (/\ Len(manifest'.files) = Len(manifest.files) + 1
                /\ manifest'.files[Len(manifest'.files)].path = last'.path
                /\ manifest'.files[Len(manifest'.files)].status = "pending")]_vars

C20_Witness ==
    /\ last.kind = "update"
    /\ last.result = "ok"
    /\ Len(manifest.files) = 2
    /\ manifest.files[1].path = last.path
    /\ manifest.files[2].path = last.path
    /\ manifest.files[1].status = "generated"
    /\ manifest.files[2].status = "pending"
    /\ fs[last.path] # NoFile

\* --------------------------------------------------------------- C21
\* C21: in the single-shot driver a cycle that fails (the generator call is
\* rejected, the response does not parse, or a command throws while it is
\* applied) ends the run in that very step with exit code 1: a failed cycle is
\* the last cycle of its run, so a run has at most one, no request is sent
\* after a failure, and no request ever carries feedback.
C21_SingleShotNoRetry ==
    /\ [](\A i \in FailedCycles : i = Len(log) /\ pc = "exited" /\ exitCode = <<1>>)
    /\ [](Cardinality(FailedCycles) <= 1)
    /\ [][FailedCommandStep => (pc' = "exited" /\ exitCode' = <<1>>)]_vars
    /\ [][(pc = "await" /\ pc' # "apply") => (pc' = "exited" /\ exitCode' = <<1>>)]_vars
    /\ [][(calls' # calls) => (FailedCycles = {} /\ request'.fixes = <<>>)]_vars
    /\ [](errors = <<>>)

C21_Witness ==
    /\ pc = "exited"
    /\ exitCode = <<1>>
    /\ log = <<"ok", "enoent">>
    /\ calls = 2
    /\ last.kind = "remove"
    /\ last.result = "threw"
    /\ request.to = "none"
    /\ errors = <<>>

====
